---- MODULE Spec2Model ----
(***************************************************************************)
(* Model of the AI coding assistant (src/src): the syntax-tree metrics of  *)
(* core/analyzer.py, core/documentor.py and core/optimizer.py, the review  *)
(* score of core/reviewer.py, the remote delegate call sites, the batch    *)
(* commands that loop over the files of a directory, the configuration of  *)
(* utils/config.py and the command line of main.py.                        *)
(*                                                                         *)
(* A source unit is a record: whether open()/read() succeeds, whether      *)
(* ast.parse accepts the text, the parsed tree, and the two features of    *)
(* the raw text that _static_analysis reads (the number of "+=" and the    *)
(* presence of "str").  A tree is a sequence of nodes in source order      *)
(* (pre-order): node 1 is the Module, every other node names its parent,   *)
(* and a node's position stands for its lineno and its name.               *)
(* Numbers are integers: float(complexity) of an int is exact.             *)
(***************************************************************************)
EXTENDS Integers, Sequences, FiniteSets, TLC

VARIABLES
    pc,        \* where the running operation or command stands
    unit,      \* the source unit under analysis
    out,       \* what the operations applied to the unit have produced
    call,      \* the last remote delegate call: site, reply, result
    ncalls,    \* remote delegate calls made so far
    review,    \* the review mapping the remote delegate will send
    verdict,   \* what review_diff returned
    cmd,       \* the batch command running
    nfiles,    \* the number of files its traversal yields
    log,       \* per file visited: the unit, the reply, what became of it
    acc,       \* the command's accumulator: results, suggestions, files written
    report,    \* what the command returned
    max_suggestions,  \* optimize_code's limit on the suggestions returned
    files,     \* the configuration files on disk: default.yaml and .env
    environ,   \* os.environ
    config,    \* the Config object: whether __init__ returned, self.config
    lookup,    \* the last Config.get: key, default, value returned
    main       \* main(): how far it got and the process exit code

unitVars == <<unit, out>>

remoteVars == <<call, ncalls>>

reviewVars == <<review, verdict>>

batchVars == <<cmd, nfiles, max_suggestions, log, acc, report>>

configVars == <<files, environ, config, lookup>>

vars ==
    <<pc, unit, out, call, ncalls, review, verdict, cmd, nfiles, max_suggestions,
      log, acc, report, files, environ, config, lookup, main>>

----------------------------------------------------------------------------
(* Bounds of the explored inputs *)

MaxCxNodes == 4
MaxVals == 3
MaxDeclNodes == 5
MaxLoopNodes == 4
MaxExtraPlusEq == 1
MaxCalls == 2
MaxItems == 1
MaxIssues == 5
MaxSuggestions == 1
MaxFiles == 3
MaxK == 3

(* Program constants *)

ConcatThreshold == 10

----------------------------------------------------------------------------
(* Syntax trees *)

BranchKinds == {"If", "For", "While", "With"}

Node(k, p, n) == [kind |-> k, parent |-> p, nvals |-> n]

ModuleTree == <<Node("Module", 0, 0)>>

NoTree == <<>>

Children(tree, i) == { j \in 1..Len(tree) : tree[j].parent = i }

RECURSIVE SortedSeq(_)
SortedSeq(S) ==
    IF S = {} THEN <<>>
    ELSE LET m == CHOOSE x \in S : \A y \in S : x <= y
         IN <<m>> \o SortedSeq(S \ {m})

(* ast.iter_child_nodes: the children of a node in field (source) order *)
IterChildNodes(tree, i) == SortedSeq(Children(tree, i))

RECURSIVE WalkQueue(_, _, _)
WalkQueue(tree, todo, visited) ==
    IF todo = <<>> THEN visited
    ELSE WalkQueue(tree, Tail(todo) \o IterChildNodes(tree, Head(todo)),
                   Append(visited, Head(todo)))

(* ast.walk(node): a deque, popleft, extend with the children: breadth first *)
Walk(tree, root) == WalkQueue(tree, <<root>>, <<>>)

RECURSIVE AncestorsOrSelf(_, _)
AncestorsOrSelf(tree, i) ==
    IF i = 0 THEN {} ELSE {i} \cup AncestorsOrSelf(tree, tree[i].parent)

----------------------------------------------------------------------------
(* core/analyzer.py *)

(* Variant: every operand of a boolean combination counted *)
NodeComplexityPerOperand(n) ==
    IF n.kind \in BranchKinds \cup {"ExceptHandler"} THEN 1
    ELSE IF n.kind = "BoolOp" THEN n.nvals
    ELSE 0

(* _calculate_complexity, lines 106-111: what one visited node adds *)
NodeComplexity(n) ==
    IF n.kind \in BranchKinds THEN 1
    ELSE IF n.kind = "ExceptHandler" THEN 1
    ELSE IF n.kind = "BoolOp" THEN n.nvals - 1
    ELSE 0

(* Variant: a boolean combination assigns instead of adding              *)
(* (complexity = len(node.values) - 1); the result is 1 + the value here   *)
RECURSIVE SumComplexityAssign(_, _)
SumComplexityAssign(tree, order) ==
    IF order = <<>> THEN 0
    ELSE LET last == tree[order[Len(order)]]
             before == SumComplexityAssign(tree, SubSeq(order, 1, Len(order) - 1))
         IN IF last.kind = "BoolOp" THEN last.nvals - 1 - 1
            ELSE before + NodeComplexity(last)

(* lines 105-111: the loop over the visited nodes *)
RECURSIVE SumComplexity(_, _)
SumComplexity(tree, order) ==
    IF order = <<>> THEN 0
    ELSE NodeComplexity(tree[Head(order)]) + SumComplexity(tree, Tail(order))

(* Variant: the accumulator started at 0 *)
CalculateComplexityFromZero(tree) == SumComplexity(tree, Walk(tree, 1))

(* _calculate_complexity, lines 101-113 *)
CalculateComplexity(tree) == 1 + SumComplexity(tree, Walk(tree, 1))

(* analyze_file, lines 82-87: the complexity of a unit, 0 when it does not parse *)
FileComplexity(u) == IF u.parses THEN CalculateComplexity(u.tree) ELSE 0

----------------------------------------------------------------------------
(* core/documentor.py: declarations *)

(* _extract_classes, lines 81-87: the FunctionDef items of node.body, in order *)
ClassMethods(tree, c) ==
    SelectSeq(IterChildNodes(tree, c), LAMBDA i : tree[i].kind = "FunctionDef")

RECURSIVE ExtractClassesFrom(_, _)
ExtractClassesFrom(tree, order) ==
    IF order = <<>> THEN <<>>
    ELSE LET i == Head(order)
         IN (IF tree[i].kind = "ClassDef"
             THEN <<[name |-> i, methods |-> ClassMethods(tree, i)]>>
             ELSE <<>>) \o ExtractClassesFrom(tree, Tail(order))

(* Variant: the classes collected in source (depth-first) order *)
ExtractClassesDepthFirst(tree) ==
    LET cs == SortedSeq({ i \in 1..Len(tree) : tree[i].kind = "ClassDef" })
    IN [ k \in 1..Len(cs) |-> [name |-> cs[k], methods |-> ClassMethods(tree, cs[k])] ]

(* _extract_classes, lines 75-95 *)
ExtractClasses(tree) == ExtractClassesFrom(tree, Walk(tree, 1))

(* node.parent, line 101: ast.parse sets no parent field on its nodes and *)
(* nothing in the repository assigns one, so reading it raises            *)
(* AttributeError.                                                        *)
HasParentField(tree, i) == FALSE

RECURSIVE ExtractFunctionsFrom(_, _, _)
ExtractFunctionsFrom(tree, order, functions) ==
    IF order = <<>> THEN [raised |-> FALSE, functions |-> functions]
    ELSE LET i == Head(order)
         IN IF tree[i].kind # "FunctionDef"
            THEN ExtractFunctionsFrom(tree, Tail(order), functions)
            ELSE IF ~HasParentField(tree, i)
            THEN [raised |-> TRUE, functions |-> <<>>]
            ELSE IF tree[tree[i].parent].kind = "ClassDef"
            THEN ExtractFunctionsFrom(tree, Tail(order), functions)
            ELSE ExtractFunctionsFrom(tree, Tail(order), Append(functions, i))

(* _extract_functions, lines 97-108 *)
ExtractFunctions(tree) == ExtractFunctionsFrom(tree, Walk(tree, 1), <<>>)

(* _generate_file_docs, lines 47-57: parse, then both extractions; an      *)
(* exception of _extract_functions leaves the method                       *)
ExtractDeclarations(u) ==
    IF ~u.parses
    THEN [status |-> "noparse", classes |-> <<>>, functions |-> <<>>]
    ELSE LET fs == ExtractFunctions(u.tree)
         IN IF fs.raised
            THEN [status |-> "raised", classes |-> <<>>, functions |-> <<>>]
            ELSE [status |-> "ok", classes |-> ExtractClasses(u.tree),
                  functions |-> fs.functions]

----------------------------------------------------------------------------
(* core/optimizer.py: static analysis *)

Suggestion(title, priority, file, line) ==
    [title |-> title, priority |-> priority, file |-> file, line |-> line]

NestedLoopFinding(file, line) ==
    Suggestion("Nested loop detected", "medium", file, line)

(* The concatenation finding carries no line *)
ConcatFinding(file) ==
    Suggestion("Repeated string concatenation", "low", file, 0)

(* Variant: no break, one finding per inner For node *)
RECURSIVE InnerScanNoBreak(_, _, _, _)
InnerScanNoBreak(tree, file, node, order) ==
    IF order = <<>> THEN <<>>
    ELSE (IF tree[Head(order)].kind = "For" /\ Head(order) # node
          THEN <<NestedLoopFinding(file, node)>> ELSE <<>>)
             \o InnerScanNoBreak(tree, file, node, Tail(order))

(* lines 128-138: the scan of one For node's subtree, left at the first   *)
(* other For node                                                         *)
RECURSIVE InnerScan(_, _, _, _)
InnerScan(tree, file, node, order) ==
    IF order = <<>> THEN <<>>
    ELSE IF tree[Head(order)].kind = "For" /\ Head(order) # node
         THEN <<NestedLoopFinding(file, node)>>
         ELSE InnerScan(tree, file, node, Tail(order))

(* lines 127-138 for one visited node *)
ScanNode(tree, file, node) ==
    IF tree[node].kind = "For" THEN InnerScan(tree, file, node, Walk(tree, node))
    ELSE <<>>

RECURSIVE NestedLoopScan(_, _, _)
NestedLoopScan(tree, file, order) ==
    IF order = <<>> THEN <<>>
    ELSE ScanNode(tree, file, Head(order)) \o NestedLoopScan(tree, file, Tail(order))

(* Variant: the threshold itself already counts *)
ConcatScanAtLeast(u, file) ==
    IF u.plusEq >= ConcatThreshold /\ u.hasStr THEN <<ConcatFinding(file)>> ELSE <<>>

(* lines 140-148: the text heuristic *)
ConcatScan(u, file) ==
    IF u.plusEq > ConcatThreshold /\ u.hasStr THEN <<ConcatFinding(file)>> ELSE <<>>

(* Variant: the text heuristic run before the parse *)
StaticAnalysisTextFirst(u, file) ==
    IF ~u.parses THEN ConcatScan(u, file)
    ELSE NestedLoopScan(u.tree, file, Walk(u.tree, 1)) \o ConcatScan(u, file)

(* _static_analysis, lines 114-150 *)
StaticAnalysis(u, file) ==
    IF ~u.parses THEN <<>>
    ELSE NestedLoopScan(u.tree, file, Walk(u.tree, 1)) \o ConcatScan(u, file)

----------------------------------------------------------------------------
(* utils/config.py.  A configuration value is null, a string, a list or a *)
(* dict; a dict is a function from its keys to values.  A variable of the *)
(* environment is <<>> when unset and <<value>> when set.                  *)

CfgVal(t, s, d) == [t |-> t, s |-> s, d |-> d]

CfgNull == CfgVal("null", "", <<>>)

CfgStr(s) == CfgVal("str", s, <<>>)

(* A list with something in it *)
CfgList == CfgVal("list", "", <<>>)

CfgDict(d) == CfgVal("dict", "", d)

EmptyDict == CfgDict(<<>>)

(* bool(value), as 'or' applies it *)
Truthy(v) ==
    IF v.t = "null" THEN FALSE
    ELSE IF v.t = "str" THEN v.s # ""
    ELSE IF v.t = "dict" THEN DOMAIN v.d # {}
    ELSE TRUE

Loaded(value) == [raised |-> FALSE, value |-> value]

LoadFailed == [raised |-> TRUE, value |-> CfgNull]

YamlFile(exists, wellformed, value) ==
    [exists |-> exists, wellformed |-> wellformed, value |-> value]

(* _load_config, lines 29-35: {} without a file, yaml.safe_load(f) or {}   *)
(* with one; yaml.safe_load raises on text that is not YAML                *)
LoadConfig(yaml) ==
    IF ~yaml.exists THEN Loaded(EmptyDict)
    ELSE IF ~yaml.wellformed THEN LoadFailed
    ELSE IF Truthy(yaml.value) THEN Loaded(yaml.value)
    ELSE Loaded(EmptyDict)

EnvNames == {"IFLOW_API_KEY", "GITHUB_TOKEN", "GITHUB_REPOSITORY"}

(* load_dotenv(), line 18: a variable of .env is set in os.environ unless  *)
(* the environment already has it                                          *)
LoadDotenv(env, dotenv) ==
    [ v \in EnvNames |-> IF env[v] # <<>> THEN env[v] ELSE dotenv[v] ]

(* d[k] = v *)
SetItem(d, k, v) == (k :> v) @@ d

(* d.setdefault(k, {}) as it leaves d *)
SetDefault(d, k) == IF k \in DOMAIN d THEN d ELSE (k :> EmptyDict) @@ d

(* Variant: a value the YAML file gives is kept *)
OverrideOneKeepYaml(cfg, env, var, section, key) ==
    IF cfg.raised \/ env[var] = <<>> THEN cfg
    ELSE IF cfg.value.t # "dict" THEN LoadFailed
    ELSE LET d == SetDefault(cfg.value.d, section)
         IN IF d[section].t # "dict" THEN LoadFailed
            ELSE IF key \in DOMAIN d[section].d THEN Loaded(CfgDict(d))
            ELSE Loaded(CfgDict(
                   [d EXCEPT ![section] =
                        CfgDict(SetItem(@.d, key, CfgStr(env[var][1])))]))

(* _override_with_env, one of lines 40-41, 44-45, 47-48:                   *)
(*   if VAR in os.environ:                                                 *)
(*       self.config.setdefault(section, {})[key] = os.environ[VAR]        *)
(* setdefault fails on a self.config that is no dict, the item assignment  *)
(* on a section that is no dict                                            *)
OverrideOne(cfg, env, var, section, key) ==
    IF cfg.raised \/ env[var] = <<>> THEN cfg
    ELSE IF cfg.value.t # "dict" THEN LoadFailed
    ELSE LET d == SetDefault(cfg.value.d, section)
         IN IF d[section].t # "dict" THEN LoadFailed
            ELSE Loaded(CfgDict(
                   [d EXCEPT ![section] =
                        CfgDict(SetItem(@.d, key, CfgStr(env[var][1])))]))

(* _override_with_env, lines 37-48 *)
OverrideWithEnv(cfg, env) ==
    OverrideOne(
        OverrideOne(
            OverrideOne(cfg, env, "IFLOW_API_KEY", "ai", "api_key"),
            env, "GITHUB_TOKEN", "github", "token"),
        env, "GITHUB_REPOSITORY", "github", "repository")

(* Config.__init__, lines 16-27, with the default config_path *)
ConfigInit(fs, env) ==
    LET cfg == OverrideWithEnv(LoadConfig(fs.yaml), LoadDotenv(env, fs.dotenv))
    IN [status |-> IF cfg.raised THEN "raised" ELSE "ok", value |-> cfg.value]

(* key.split('.') of a key given as its pieces: names and "." *)
RECURSIVE Split(_)
Split(key) ==
    IF key = <<>> THEN <<"">>
    ELSE IF Head(key) = "." THEN <<"">> \o Split(Tail(key))
    ELSE LET rest == Split(Tail(key))
         IN <<Head(key) \o Head(rest)>> \o Tail(rest)

RECURSIVE Descend(_, _, _)
Descend(value, keys, default) ==
    IF keys = <<>> THEN value
    ELSE IF value.t = "dict" /\ Head(keys) \in DOMAIN value.d
         THEN Descend(value.d[Head(keys)], Tail(keys), default)
         ELSE default

(* Config.get, lines 50-61 *)
Get(cfg, key, default) == Descend(cfg, Split(key), default)

----------------------------------------------------------------------------
(* Python values, as far as the code tells them apart.  A mapping holds    *)
(* its 'issues' list, one further list (read as 'patterns' and             *)
(* 'dependencies' by the analyzer, as 'suggestions' and 'comments' by the  *)
(* reviewer) and its 'summary'; "mapbad" is a mapping whose 'issues' value *)
(* is a number; a list holds its items in others; a string its text.       *)

PyVal(t, issues, others, text) ==
    [t |-> t, issues |-> issues, others |-> others, text |-> text]

PyNone == PyVal("none", <<>>, <<>>, "")

PyStr(text) == PyVal("str", <<>>, <<>>, text)

PyNum == PyVal("num", <<>>, <<>>, "")

PyList(items) == PyVal("list", <<>>, items, "")

PyMap(issues, others, summary) == PyVal("map", issues, others, summary)

PyMapBad == PyVal("mapbad", <<>>, <<>>, "")

Severities == {"critical", "medium", "low", "info"}

RECURSIVE SeqsUpTo(_, _)
SeqsUpTo(S, n) ==
    IF n = 0 THEN {<<>>}
    ELSE LET shorter == SeqsUpTo(S, n - 1)
         IN shorter \cup { Append(q, x) : q \in shorter, x \in S }

----------------------------------------------------------------------------
(* The remote delegate: what requests.post and the response give back.     *)
(* net: the request timed out, came back non-2xx, came back with a body    *)
(* that is not JSON, with JSON lacking choices[0].message.content, or ok.  *)
(* form of the content: not a string (null), a string json.loads rejects,  *)
(* or JSON text for value.                                                 *)

Reply(net, form, value) == [net |-> net, form |-> form, value |-> value]

FailedNets == {"timeout", "non2xx", "badbody", "nocontent"}

NoReply == Reply("none", "nonstr", PyNone)

FailedReplies == { Reply(n, "nonstr", PyNone) : n \in FailedNets }

Markdown == Reply("ok", "notjson", PyStr("markdown"))

NullContent == Reply("ok", "nonstr", PyNone)

JsonReply(value) == Reply("ok", "json", value)

Return(value) == [raised |-> FALSE, value |-> value]

Raise == [raised |-> TRUE, value |-> PyNone]

(* The content field as the documentor returns it: the text itself *)
ContentValue(reply) ==
    IF reply.form = "nonstr" THEN PyNone
    ELSE IF reply.form = "json" THEN PyStr("json") ELSE reply.value

(* requests.post, raise_for_status, response.json(), the content lookup *)
Post(reply) == IF reply.net = "ok" THEN Return(ContentValue(reply)) ELSE Raise

(* .strip() and json.loads of the content *)
JsonLoads(reply) == IF reply.form = "json" THEN Return(reply.value) ELSE Raise

(* The body of the try block: with or without json.loads of the content *)
TryCall(reply, parse) ==
    IF Post(reply).raised THEN Raise
    ELSE IF parse THEN JsonLoads(reply) ELSE Post(reply)

(* Variant: only the request's own errors are caught *)
CatchRequestErrorsOnly(reply, parse, default) ==
    IF reply.net \in {"timeout", "non2xx"} THEN Return(default)
    ELSE TryCall(reply, parse)

(* try ... except Exception: return the default *)
CatchAll(reply, parse, default) ==
    IF TryCall(reply, parse).raised THEN Return(default) ELSE TryCall(reply, parse)

AnalyzerDefault == PyMap(<<>>, <<>>, "")

ReviewerDefault == PyMap(<<>>, <<>>, "Unable to perform AI review due to an error.")

OptimizerDefault == PyList(<<>>)

DocsDefault == PyStr("Documentation generation failed.")

ReadmeDefault == PyStr("README generation failed.")

AnalyzerAnalyzeWithAI(reply) == CatchAll(reply, TRUE, AnalyzerDefault)

ReviewerAnalyzeWithAI(reply) == CatchAll(reply, TRUE, ReviewerDefault)

OptimizerAnalyzeWithAI(reply) == CatchAll(reply, TRUE, OptimizerDefault)

GenerateWithAI(reply) == CatchAll(reply, FALSE, DocsDefault)

GenerateReadmeContent(reply) == CatchAll(reply, FALSE, ReadmeDefault)

Sites == {"analyzer", "reviewer", "optimizer", "docs", "readme"}

SiteCall(site, reply) ==
    IF site = "analyzer" THEN AnalyzerAnalyzeWithAI(reply)
    ELSE IF site = "reviewer" THEN ReviewerAnalyzeWithAI(reply)
    ELSE IF site = "optimizer" THEN OptimizerAnalyzeWithAI(reply)
    ELSE IF site = "docs" THEN GenerateWithAI(reply)
    ELSE GenerateReadmeContent(reply)

SiteDefault(site) ==
    IF site = "analyzer" THEN AnalyzerDefault
    ELSE IF site = "reviewer" THEN ReviewerDefault
    ELSE IF site = "optimizer" THEN OptimizerDefault
    ELSE IF site = "docs" THEN DocsDefault
    ELSE ReadmeDefault

(* The JSON values the explored replies carry *)
JsonValues ==
    { PyMap(is, os, sm) : is \in SeqsUpTo(Severities, MaxItems),
                          os \in SeqsUpTo({"item"}, MaxItems),
                          sm \in {"", "Looks fine."} }
        \cup { PyList(os) : os \in SeqsUpTo({"item"}, MaxItems) }
        \cup {PyNum, PyMapBad}

Replies ==
    FailedReplies \cup {Markdown, NullContent}
        \cup { JsonReply(v) : v \in JsonValues }

NoCall == [site |-> "none", reply |-> NoReply, result |-> Return(PyNone)]

IdleRemote == call = NoCall /\ ncalls = 0

IdleReview == review = PyNone /\ verdict = [status |-> "none"]

IdleBatch ==
    /\ cmd = "none" /\ nfiles = 0 /\ max_suggestions = 0
    /\ log = <<>> /\ acc = <<>>
    /\ report = [status |-> "none"]

IdleUnit == unit = [readable |-> FALSE] /\ out = [ops |-> {}]

NoFiles ==
    [yaml |-> YamlFile(FALSE, FALSE, CfgNull), dotenv |-> [v \in EnvNames |-> <<>>]]

NoEnviron == [v \in EnvNames |-> <<>>]

NoConfig == [status |-> "none", value |-> CfgNull]

NoLookup == [made |-> FALSE, key |-> <<>>, default |-> CfgNull, value |-> CfgNull]

IdleConfig ==
    /\ files = NoFiles /\ environ = NoEnviron
    /\ config = NoConfig /\ lookup = NoLookup

NoMain == [command |-> "none", output |-> "none", exit |-> <<>>]

IdleMain == main = NoMain

InitRemote ==
    /\ pc = "idle"
    /\ IdleRemote /\ IdleUnit /\ IdleReview /\ IdleBatch
    /\ IdleConfig /\ IdleMain

CallSite(site) ==
    /\ ncalls < MaxCalls
    /\ \E reply \in Replies :
         call' = [site |-> site, reply |-> reply, result |-> SiteCall(site, reply)]
    /\ ncalls' = ncalls + 1
    /\ UNCHANGED <<pc, unitVars, reviewVars, batchVars,
                 configVars, main>>

CallAnalyzer == CallSite("analyzer")

CallReviewer == CallSite("reviewer")

CallOptimizer == CallSite("optimizer")

CallDocs == CallSite("docs")

CallReadme == CallSite("readme")

NextRemote ==
    CallAnalyzer \/ CallReviewer \/ CallOptimizer \/ CallDocs \/ CallReadme

SpecRemote == InitRemote /\ [][NextRemote]_vars

----------------------------------------------------------------------------
(* core/reviewer.py *)

(* len([i for i in review.get('issues', []) if i.get('severity') == sev]) *)
CountSeverity(issues, sev) == Len(SelectSeq(issues, LAMBDA i : i = sev))

(* int(x) for x given in halves: truncation toward zero *)
IntOfHalves(h) == IF h >= 0 THEN h \div 2 ELSE -((-h) \div 2)

Max(a, b) == IF a >= b THEN a ELSE b

Min(a, b) == IF a <= b THEN a ELSE b

(* Variant: a low issue costs a whole point *)
CalculateScoreLowWhole(rv) ==
    LET halves == 2 * 10 - 4 * CountSeverity(rv.issues, "critical")
                         - 2 * CountSeverity(rv.issues, "medium")
                         - 2 * CountSeverity(rv.issues, "low")
                         + (IF rv.others # <<>> THEN 2 ELSE 0)
    IN Max(1, Min(10, IntOfHalves(halves)))

(* _calculate_score, lines 97-112, for a review that is a mapping with a   *)
(* list of issues; the score is kept in halves until int()                 *)
CalculateScore(rv) ==
    LET halves == 2 * 10 - 4 * CountSeverity(rv.issues, "critical")
                         - 2 * CountSeverity(rv.issues, "medium")
                         - 1 * CountSeverity(rv.issues, "low")
                         + (IF rv.others # <<>> THEN 2 ELSE 0)
    IN Max(1, Min(10, IntOfHalves(halves)))

(* review_diff, lines 22-39: review.get of a value that is no mapping, or  *)
(* iterating an 'issues' value that is no list, raises                     *)
ReviewDiff(reply) ==
    LET rv == ReviewerAnalyzeWithAI(reply).value
    IN IF rv.t # "map"
       THEN [status |-> "raised", overall_score |-> 0, summary |-> "",
             issues |-> <<>>, suggestions |-> <<>>]
       ELSE [status |-> "returned", overall_score |-> CalculateScore(rv),
             summary |-> rv.text, issues |-> rv.issues, suggestions |-> rv.others]

NoVerdict ==
    [status |-> "none", overall_score |-> 0, summary |-> "",
     issues |-> <<>>, suggestions |-> <<>>]

InitReview ==
    /\ pc = "build"
    /\ review = PyMap(<<>>, <<>>, "Looks fine.")
    /\ verdict = NoVerdict
    /\ IdleRemote /\ IdleUnit /\ IdleBatch
    /\ IdleConfig /\ IdleMain

(* The remote delegate's review grows by one issue *)
AddIssue ==
    /\ pc = "build"
    /\ Len(review.issues) < MaxIssues
    /\ \E sev \in Severities :
         review' = [review EXCEPT !.issues = Append(@, sev)]
    /\ UNCHANGED <<pc, verdict, unitVars, remoteVars, batchVars,
                 configVars, main>>

AddSuggestion ==
    /\ pc = "build"
    /\ Len(review.others) < MaxSuggestions
    /\ review' = [review EXCEPT !.others = Append(@, "item")]
    /\ UNCHANGED <<pc, verdict, unitVars, remoteVars, batchVars,
                 configVars, main>>

(* The replies the remote delegate may give for the review it holds *)
ReviewReplies ==
    FailedReplies \cup
        {Markdown, JsonReply(review), JsonReply(PyList(<<>>)), JsonReply(PyMapBad)}

ReviewPr ==
    /\ pc = "build"
    /\ \E reply \in ReviewReplies :
         /\ verdict' = ReviewDiff(reply)
         /\ call' = [site |-> "reviewer", reply |-> reply,
                     result |-> ReviewerAnalyzeWithAI(reply)]
    /\ ncalls' = ncalls + 1
    /\ pc' = "done"
    /\ UNCHANGED <<review, unitVars, batchVars,
                 configVars, main>>

NextReview == AddIssue \/ AddSuggestion \/ ReviewPr

SpecReview == InitReview /\ [][NextReview]_vars

----------------------------------------------------------------------------
(* Source units under analysis *)

Unit(r, p, t, pe, hs) ==
    [readable |-> r, parses |-> p, tree |-> t, plusEq |-> pe, hasStr |-> hs]

(* What the operations applied to the unit have produced so far *)
NoOut ==
    [ops |-> {}, complexity |-> 0, status |-> "none", classes |-> <<>>,
     functions |-> <<>>, findings |-> <<>>]

(* A node kind with its operand count (only a BoolOp has operands) *)
CxShapes ==
    { Node(k, 0, 0) : k \in BranchKinds \cup {"ExceptHandler", "FunctionDef", "Other"} }
        \cup { Node("BoolOp", 0, n) : n \in 2..MaxVals }

DeclShapes == { Node(k, 0, 0) : k \in {"ClassDef", "FunctionDef", "Other"} }

LoopShapes == { Node(k, 0, 0) : k \in {"For", "While", "Other"} }

PlusEqCounts ==
    {0} \cup ((ConcatThreshold - 1)..(ConcatThreshold + MaxExtraPlusEq))

(* Where the next node in source order can hang: on the path from the last *)
(* node up to the Module; a BoolOp holds at most nvals operands and only   *)
(* expressions, a statement never sits inside an expression.               *)
CanAttach(tree, p, shape) ==
    /\ p \in AncestorsOrSelf(tree, Len(tree))
    /\ tree[p].kind = "BoolOp" =>
           /\ shape.kind \in {"BoolOp", "Other"}
           /\ Cardinality(Children(tree, p)) < tree[p].nvals

Grow(tree, p, shape) == Append(tree, [shape EXCEPT !.parent = p])

(* The text is read and parsed: the tree grows in source order *)
AddNode(shapes, maxNodes) ==
    /\ pc = "build"
    /\ unit.parses
    /\ Len(unit.tree) < maxNodes
    /\ \E shape \in shapes, p \in 1..Len(unit.tree) :
         /\ CanAttach(unit.tree, p, shape)
         /\ unit' = [unit EXCEPT !.tree = Grow(unit.tree, p, shape)]
    /\ UNCHANGED <<pc, out, remoteVars, reviewVars, batchVars,
                 configVars, main>>

InitUnit(counts, marks) ==
    /\ pc = "build"
    /\ \E p \in BOOLEAN, pe \in counts, hs \in marks :
         unit = Unit(TRUE, p, IF p THEN ModuleTree ELSE NoTree, pe, hs)
    /\ out = NoOut
    /\ IdleRemote /\ IdleReview /\ IdleBatch
    /\ IdleConfig /\ IdleMain

(* analyze_file, lines 82-87 *)
MeasureFile ==
    /\ "complexity" \notin out.ops
    /\ out' = [out EXCEPT !.ops = @ \cup {"complexity"},
                          !.complexity = FileComplexity(unit)]
    /\ pc' = "done"
    /\ UNCHANGED <<unit, remoteVars, reviewVars, batchVars,
                 configVars, main>>

(* _generate_file_docs, lines 47-57 *)
ExtractFile ==
    /\ "declarations" \notin out.ops
    /\ LET d == ExtractDeclarations(unit)
       IN out' = [out EXCEPT !.ops = @ \cup {"declarations"},
                             !.status = d.status,
                             !.classes = d.classes,
                             !.functions = d.functions]
    /\ pc' = "done"
    /\ UNCHANGED <<unit, remoteVars, reviewVars, batchVars,
                 configVars, main>>

(* _optimize_file, lines 55-56 *)
StaticFile ==
    /\ "static" \notin out.ops
    /\ out' = [out EXCEPT !.ops = @ \cup {"static"},
                          !.findings = StaticAnalysis(unit, 1)]
    /\ pc' = "done"
    /\ UNCHANGED <<unit, remoteVars, reviewVars, batchVars,
                 configVars, main>>

InitComplexity == InitUnit({0}, {FALSE})

AddCxNode == AddNode(CxShapes, MaxCxNodes)

NextComplexity == AddCxNode \/ MeasureFile

SpecComplexity == InitComplexity /\ [][NextComplexity]_vars

InitDecl == InitUnit({0}, {FALSE})

AddDeclNode == AddNode(DeclShapes, MaxDeclNodes)

NextDecl == AddDeclNode \/ ExtractFile

SpecDecl == InitDecl /\ [][NextDecl]_vars

InitStatic == InitUnit(PlusEqCounts, BOOLEAN)

AddLoopNode == AddNode(LoopShapes, MaxLoopNodes)

NextStatic == AddLoopNode \/ MeasureFile \/ ExtractFile \/ StaticFile

SpecStatic == InitStatic /\ [][NextStatic]_vars

----------------------------------------------------------------------------
(* The batch commands: analyze_directory, optimize_code and generate_docs  *)
(* over the files a directory traversal yields                             *)

(* The source units a traversal may meet *)
Catalogue ==
    [ plain |-> Unit(TRUE, TRUE,
                     <<Node("Module", 0, 0), Node("For", 1, 0),
                       Node("For", 2, 0), Node("If", 1, 0)>>,
                     ConcatThreshold + 1, TRUE),
      withdef |-> Unit(TRUE, TRUE,
                       <<Node("Module", 0, 0), Node("ClassDef", 1, 0),
                         Node("FunctionDef", 2, 0), Node("FunctionDef", 1, 0)>>,
                       0, FALSE),
      broken |-> Unit(TRUE, FALSE, NoTree, ConcatThreshold + 1, TRUE),
      unreadable |-> Unit(FALSE, FALSE, NoTree, 0, FALSE) ]

(* What the remote delegate may answer for file i *)
BatchReplies(i) ==
    { Reply("timeout", "nonstr", PyNone), Markdown, NullContent,
      JsonReply(PyMap(<<"low">>, <<"item">>, "")),
      JsonReply(PyList(<<Suggestion("Use a set", "high", i, 0)>>)),
      JsonReply(PyMapBad) }

Visit(name, reply, called, fate) ==
    [unit |-> name, reply |-> IF called THEN reply ELSE NoReply,
     called |-> called, fate |-> fate]

Report(status, count, issues, items) ==
    [status |-> status, count |-> count, issues |-> issues, items |-> items]

NoReport == Report("none", 0, 0, <<>>)

(* asdict(AnalysisResult); is_list is FALSE when the remote mapping's      *)
(* 'issues' value is no list                                               *)
AnalysisResult(file, complexity, ai) ==
    [file_path |-> file, complexity_score |-> complexity,
     issues_found |-> ai.issues, patterns_detected |-> ai.others,
     dependencies |-> ai.others, is_list |-> ai.t = "map"]

(* Variant: the SyntaxError of ast.parse is not caught in analyze_file *)
AnalyzeFileNoParseGuard(u, file, reply) ==
    IF ~u.readable \/ ~u.parses
    THEN [raised |-> TRUE, called |-> FALSE, result |-> <<>>]
    ELSE LET ai == AnalyzerAnalyzeWithAI(reply).value
         IN IF ai.t \notin {"map", "mapbad"}
            THEN [raised |-> TRUE, called |-> TRUE, result |-> <<>>]
            ELSE [raised |-> FALSE, called |-> TRUE,
                  result |-> <<AnalysisResult(file, FileComplexity(u), ai)>>]

(* analyze_file, lines 72-99: open() raises for an unreadable file, and    *)
(* ai_analysis.get raises when the decoded reply is no mapping             *)
AnalyzeFile(u, file, reply) ==
    IF ~u.readable
    THEN [raised |-> TRUE, called |-> FALSE, result |-> <<>>]
    ELSE LET ai == AnalyzerAnalyzeWithAI(reply).value
         IN IF ai.t \notin {"map", "mapbad"}
            THEN [raised |-> TRUE, called |-> TRUE, result |-> <<>>]
            ELSE [raised |-> FALSE, called |-> TRUE,
                  result |-> <<AnalysisResult(file, FileComplexity(u), ai)>>]

(* _optimize_file, lines 48-59: ai_suggestions + static_suggestions raises *)
(* when the decoded reply is no list                                       *)
OptimizeFile(u, file, reply) ==
    IF ~u.readable
    THEN [raised |-> TRUE, called |-> FALSE, result |-> <<>>]
    ELSE LET ai == OptimizerAnalyzeWithAI(reply).value
         IN IF ai.t # "list"
            THEN [raised |-> TRUE, called |-> TRUE, result |-> <<>>]
            ELSE [raised |-> FALSE, called |-> TRUE,
                  result |-> ai.others \o StaticAnalysis(u, file)]

(* _generate_file_docs, lines 42-73: returns early on a parse failure;     *)
(* f.write raises when the content is no string                            *)
GenerateFileDocs(u, file, reply) ==
    IF ~u.readable
    THEN [raised |-> TRUE, called |-> FALSE, result |-> <<>>]
    ELSE IF ExtractDeclarations(u).status = "noparse"
    THEN [raised |-> FALSE, called |-> FALSE, result |-> <<>>]
    ELSE IF ExtractDeclarations(u).status = "raised"
    THEN [raised |-> TRUE, called |-> FALSE, result |-> <<>>]
    ELSE LET doc == GenerateWithAI(reply).value
         IN IF doc.t # "str"
            THEN [raised |-> TRUE, called |-> TRUE, result |-> <<>>]
            ELSE [raised |-> FALSE, called |-> TRUE,
                  result |-> <<[file_path |-> file, content |-> doc.text]>>]

RECURSIVE SumIssues(_)
SumIssues(results) ==
    IF results = <<>> THEN 0
    ELSE Len(Head(results).issues_found) + SumIssues(Tail(results))

(* Variant: the slice keeps one entry too many *)
TakeOneMore(q, k) == SubSeq(q, 1, Min(k + 1, Len(q)))

(* suggestions[:max_suggestions], line 40, for max_suggestions >= 0 *)
Take(q, k) == SubSeq(q, 1, Min(k, Len(q)))

InitBatch ==
    /\ pc = "loop"
    /\ cmd \in {"analyze", "optimize", "docs"}
    /\ nfiles \in 0..MaxFiles
    /\ max_suggestions \in IF cmd = "optimize" THEN 0..MaxK ELSE {0}
    /\ log = <<>> /\ acc = <<>> /\ report = NoReport
    /\ IdleRemote /\ IdleUnit /\ IdleReview
    /\ IdleConfig /\ IdleMain

(* What a file's visit leaves of its remote delegate call, if it made one *)
RemoteCall(site, reply, called) ==
    /\ call' = IF called
               THEN [site |-> site, reply |-> reply, result |-> SiteCall(site, reply)]
               ELSE call
    /\ ncalls' = IF called THEN ncalls + 1 ELSE ncalls

(* analyze_directory, lines 54-59: one turn of the loop; an exception of   *)
(* analyze_file is logged and the file left out                            *)
AnalyzeNext ==
    /\ cmd = "analyze" /\ pc = "loop" /\ Len(log) < nfiles
    /\ \E name \in DOMAIN Catalogue, reply \in BatchReplies(Len(log) + 1) :
         LET r == AnalyzeFile(Catalogue[name], Len(log) + 1, reply)
         IN /\ log' = Append(log, Visit(name, reply, r.called,
                                        IF r.raised THEN "skipped" ELSE "done"))
            /\ acc' = acc \o r.result
            /\ RemoteCall("analyzer", reply, r.called)
    /\ UNCHANGED <<pc, cmd, nfiles, max_suggestions, report, unitVars, reviewVars,
                   configVars, main>>

(* analyze_directory, lines 61-70: _generate_summary iterates every        *)
(* issues_found and raises on one that is no list                          *)
AnalyzeReturn ==
    /\ cmd = "analyze" /\ pc = "loop" /\ Len(log) = nfiles
    /\ IF \E k \in 1..Len(acc) : ~acc[k].is_list
       THEN pc' = "raised" /\ report' = Report("raised", 0, 0, <<>>)
       ELSE /\ pc' = "returned"
            /\ report' = Report("returned", Len(acc), SumIssues(acc), acc)
    /\ UNCHANGED <<cmd, nfiles, max_suggestions, log, acc, unitVars, remoteVars,
                   reviewVars, configVars, main>>

(* optimize_code, lines 35-37: one turn of the loop, nothing is caught *)
OptimizeNext ==
    /\ cmd = "optimize" /\ pc = "loop" /\ Len(log) < nfiles
    /\ \E name \in DOMAIN Catalogue, reply \in BatchReplies(Len(log) + 1) :
         LET r == OptimizeFile(Catalogue[name], Len(log) + 1, reply)
         IN /\ log' = Append(log, Visit(name, reply, r.called,
                                        IF r.raised THEN "raised" ELSE "done"))
            /\ acc' = acc \o r.result
            /\ RemoteCall("optimizer", reply, r.called)
            /\ pc' = IF r.raised THEN "raised" ELSE pc
            /\ report' = IF r.raised THEN Report("raised", 0, 0, <<>>) ELSE report
    /\ UNCHANGED <<cmd, nfiles, max_suggestions, unitVars, reviewVars,
                   configVars, main>>

(* optimize_code, lines 40-46 *)
OptimizeReturn ==
    /\ cmd = "optimize" /\ pc = "loop" /\ Len(log) = nfiles
    /\ report' = Report("returned", Len(Take(acc, max_suggestions)), 0,
                      Take(acc, max_suggestions))
    /\ pc' = "returned"
    /\ UNCHANGED <<cmd, nfiles, max_suggestions, log, acc, unitVars, remoteVars,
                   reviewVars, configVars, main>>

(* generate_docs, lines 36-40: one turn of the loop, nothing is caught *)
DocsNext ==
    /\ cmd = "docs" /\ pc = "loop" /\ Len(log) < nfiles
    /\ \E name \in DOMAIN Catalogue, reply \in BatchReplies(Len(log) + 1) :
         LET r == GenerateFileDocs(Catalogue[name], Len(log) + 1, reply)
         IN /\ log' = Append(log, Visit(name, reply, r.called,
                                        IF r.raised THEN "raised"
                                        ELSE IF r.result = <<>> THEN "skipped"
                                        ELSE "done"))
            /\ acc' = acc \o r.result
            /\ RemoteCall("docs", reply, r.called)
            /\ pc' = IF r.raised THEN "raised" ELSE pc
            /\ report' = IF r.raised THEN Report("raised", 0, 0, <<>>) ELSE report
    /\ UNCHANGED <<cmd, nfiles, max_suggestions, unitVars, reviewVars,
                   configVars, main>>

(* generate_docs returns None once the traversal is exhausted *)
DocsReturn ==
    /\ cmd = "docs" /\ pc = "loop" /\ Len(log) = nfiles
    /\ report' = Report("returned", Len(acc), 0, <<>>)
    /\ pc' = "returned"
    /\ UNCHANGED <<cmd, nfiles, max_suggestions, log, acc, unitVars, remoteVars,
                   reviewVars, configVars, main>>

NextBatch ==
    \/ AnalyzeNext \/ AnalyzeReturn
    \/ OptimizeNext \/ OptimizeReturn
    \/ DocsNext \/ DocsReturn

SpecBatch == InitBatch /\ [][NextBatch]_vars

----------------------------------------------------------------------------
(* Config: construction and lookups *)

(* The dicts over some of the keys *)
DictsOver(keys, values) ==
    { CfgDict(d) : d \in UNION { [K -> values] : K \in SUBSET keys } }

FromYaml == CfgStr("from-yaml")

(* What default.yaml may hold under 'ai' and under 'github': <<>> stands   *)
(* for a section that is not there                                         *)
AiSections ==
    {<<>>, <<CfgNull>>, <<CfgStr("text")>>}
        \cup { <<s>> : s \in DictsOver({"api_key", "model"}, {FromYaml, CfgNull}) }

GithubSections ==
    {<<>>, <<CfgNull>>}
        \cup { <<s>> : s \in DictsOver({"token", "repository"}, {FromYaml}) }

Section(name, s) == IF s = <<>> THEN <<>> ELSE (name :> s[1])

YamlMappings ==
    { CfgDict(Section("ai", a) @@ Section("github", g)) :
        a \in AiSections, g \in GithubSections }

YamlFiles ==
    { YamlFile(FALSE, FALSE, CfgNull), YamlFile(TRUE, FALSE, CfgNull),
      YamlFile(TRUE, TRUE, CfgNull), YamlFile(TRUE, TRUE, CfgList) }
        \cup { YamlFile(TRUE, TRUE, m) : m \in YamlMappings }

(* What .env may set *)
Dotenvs ==
    { [NoEnviron EXCEPT !["IFLOW_API_KEY"] = s] : s \in {<<>>, <<"from-dotenv">>} }

Keys ==
    { <<"ai", ".", "api_key">>, <<"github", ".", "token">>,
      <<"github", ".", "repository">>, <<"ai", ".", "model">>,
      <<"ai">>, <<"nosuch", ".", "key">>,
      <<"ai", ".", "api_key", ".", "more">>, <<"ai", ".", ".", "api_key">> }

InitConfig ==
    /\ pc = "start"
    /\ files \in [yaml : YamlFiles, dotenv : Dotenvs]
    /\ environ \in [EnvNames -> {<<>>, <<"from-env">>}]
    /\ config = NoConfig /\ lookup = NoLookup
    /\ IdleRemote /\ IdleUnit /\ IdleReview /\ IdleBatch /\ IdleMain

(* Config(), lines 16-27 *)
ConfigConstruct ==
    /\ pc = "start"
    /\ environ' = LoadDotenv(environ, files.dotenv)
    /\ config' = ConfigInit(files, environ)
    /\ pc' = IF config'.status = "ok" THEN "constructed" ELSE "raised"
    /\ UNCHANGED <<files, lookup, unitVars, remoteVars, reviewVars, batchVars,
                   main>>

(* config.get(key, default), lines 50-61 *)
ConfigGet ==
    /\ pc = "constructed"
    /\ \E key \in Keys, default \in {CfgNull, CfgStr("fallback")} :
         lookup' = [made |-> TRUE, key |-> key, default |-> default,
                    value |-> Get(config.value, key, default)]
    /\ UNCHANGED <<pc, files, environ, config, unitVars, remoteVars, reviewVars,
                   batchVars, main>>

NextConfig == ConfigConstruct \/ ConfigGet

SpecConfig == InitConfig /\ [][NextConfig]_vars

----------------------------------------------------------------------------
(* main.py: one run of the command line, from the return of parse_args *)

Commands == {"analyze", "review", "optimize", "docs", "readme"}

BatchCommands == {"analyze", "optimize", "docs"}

(* The commands whose branch writes the result with json.dump *)
ReportCommands == {"analyze", "review", "optimize"}

(* Variant: the except clause returns 0 as well *)
MainReturnAlwaysZero(raised) == 0

(* lines 119-123 and 127: return 0 at the end of the try block, return 1   *)
(* from the except clause, handed to sys.exit                              *)
MainReturn(raised) == IF raised THEN 1 ELSE 0

Exited(m, command, output, code) ==
    [m EXCEPT !.command = command, !.output = output, !.exit = <<code>>]

InitMain ==
    /\ pc = "parsed"
    /\ cmd \in Commands \cup {"none"}
    /\ nfiles \in IF cmd \in BatchCommands THEN 0..MaxFiles ELSE {0}
    /\ max_suggestions \in IF cmd = "optimize" THEN 0..MaxK ELSE {0}
    /\ log = <<>> /\ acc = <<>> /\ report = NoReport
    /\ files \in [yaml : {YamlFile(FALSE, FALSE, CfgNull),
                         YamlFile(TRUE, FALSE, CfgNull)},
                 dotenv : {NoEnviron}]
    /\ environ = NoEnviron /\ config = NoConfig /\ lookup = NoLookup
    /\ main = NoMain
    /\ call = NoCall /\ ncalls = 0
    /\ review = PyNone /\ verdict = NoVerdict
    /\ IdleUnit

(* lines 54-56: no command, print_help and sys.exit(1) *)
MainNoCommand ==
    /\ pc = "parsed" /\ cmd = "none"
    /\ main' = Exited(main, "none", "none", 1)
    /\ pc' = "exited"
    /\ UNCHANGED <<unitVars, remoteVars, reviewVars, batchVars, configVars>>

(* lines 58-63: the logger and Config(), outside the try block: an         *)
(* exception of Config() ends the interpreter with a traceback and status 1 *)
MainSetup ==
    /\ pc = "parsed" /\ cmd # "none"
    /\ environ' = LoadDotenv(environ, files.dotenv)
    /\ config' = ConfigInit(files, environ)
    /\ IF config'.status = "ok"
       THEN pc' = "dispatch" /\ main' = main
       ELSE pc' = "exited" /\ main' = Exited(main, "none", "none", 1)
    /\ UNCHANGED <<files, lookup, unitVars, remoteVars, reviewVars, batchVars>>

(* lines 66-68, 94-96, 106-116: the batch command is entered; for docs the *)
(* output directory is made first, and mkdir may fail                      *)
MainBatch ==
    /\ pc = "dispatch" /\ cmd \in BatchCommands
    /\ \E made \in BOOLEAN :
         IF cmd = "docs" /\ ~made
         THEN pc' = "raised" /\ report' = Report("raised", 0, 0, <<>>)
         ELSE pc' = "loop" /\ report' = report
    /\ UNCHANGED <<cmd, nfiles, max_suggestions, log, acc, unitVars, remoteVars,
                   reviewVars, configVars, main>>

(* lines 78-84: the diff is read and reviewed *)
MainReview ==
    /\ pc = "dispatch" /\ cmd = "review"
    /\ \E readable \in BOOLEAN, reply \in {Markdown, NullContent,
                                           JsonReply(PyMap(<<"low">>, <<>>, "")),
                                           JsonReply(PyList(<<>>))} :
         IF ~readable
         THEN /\ pc' = "raised"
              /\ UNCHANGED <<verdict, remoteVars>>
         ELSE /\ verdict' = ReviewDiff(reply)
              /\ call' = [site |-> "reviewer", reply |-> reply,
                          result |-> ReviewerAnalyzeWithAI(reply)]
              /\ ncalls' = ncalls + 1
              /\ pc' = IF verdict'.status = "raised" THEN "raised" ELSE "returned"
    /\ UNCHANGED <<review, unitVars, batchVars, configVars, main>>

(* lines 109-111 and create_readme, documentor.py lines 162-180: f.write   *)
(* raises on content that is no string, open on a path that cannot be      *)
(* written                                                                 *)
MainReadme ==
    /\ pc = "dispatch" /\ cmd = "readme"
    /\ \E writable \in BOOLEAN, reply \in {Reply("timeout", "nonstr", PyNone),
                                           Markdown, NullContent} :
         /\ call' = [site |-> "readme", reply |-> reply,
                     result |-> GenerateReadmeContent(reply)]
         /\ ncalls' = ncalls + 1
         /\ pc' = IF writable /\ call'.result.value.t = "str"
                  THEN "returned" ELSE "raised"
    /\ UNCHANGED <<unitVars, reviewVars, batchVars, configVars, main>>

(* lines 70-76, 86-92, 98-104, 117 and 119: the result is written where    *)
(* the command has one (mkdir, open and json.dump may fail), then return 0 *)
MainComplete ==
    /\ pc = "returned"
    /\ \E written \in (IF cmd \in ReportCommands THEN BOOLEAN ELSE {TRUE}) :
         main' = Exited(main, "completed",
                        IF ~written THEN "failed"
                        ELSE IF cmd \in ReportCommands THEN "written" ELSE "none",
                        MainReturn(~written))
    /\ pc' = "exited"
    /\ UNCHANGED <<unitVars, remoteVars, reviewVars, batchVars, configVars>>

(* lines 121-123: an exception of the command reaches the except clause *)
MainCatch ==
    /\ pc = "raised"
    /\ main' = Exited(main, "raised", "none", MainReturn(TRUE))
    /\ pc' = "exited"
    /\ UNCHANGED <<unitVars, remoteVars, reviewVars, batchVars, configVars>>

NextMain ==
    \/ MainNoCommand \/ MainSetup
    \/ MainBatch \/ MainReview \/ MainReadme
    \/ AnalyzeNext \/ AnalyzeReturn
    \/ OptimizeNext \/ OptimizeReturn
    \/ DocsNext \/ DocsReturn
    \/ MainComplete \/ MainCatch

SpecMain == InitMain /\ [][NextMain]_vars

----------------------------------------------------------------------------
(* Properties of _calculate_complexity, under SpecComplexity *)

Kinds(tree) == { tree[i].kind : i \in 1..Len(tree) }

Measured == "complexity" \in out.ops /\ unit.parses

IsLeaf(tree, i) == Children(tree, i) = {}

(* The tree without its leaf i, the later nodes renumbered *)
RemoveLeaf(tree, i) ==
    [ j \in 1..(Len(tree) - 1) |->
        LET n == tree[IF j < i THEN j ELSE j + 1]
        IN [n EXCEPT !.parent = IF @ > i THEN @ - 1 ELSE @] ]

(* C5 as stated: a parsed tree with no conditional, loop, exception handler *)
(* or boolean combination has complexity 1.0, whatever else it holds,      *)
(* context-manager blocks included.                                        *)
C5_NoBranchingIsOne_AsStated ==
    (Measured /\ Kinds(unit.tree) \cap
        {"If", "For", "While", "ExceptHandler", "BoolOp"} = {})
        => out.complexity = 1

(* C5 amended: a parsed tree with no If, For, While, With, ExceptHandler   *)
(* or BoolOp node has complexity exactly 1; a With node counts as a branch. *)
C5_NoCountedNodeIsOne ==
    (Measured /\ Kinds(unit.tree) \cap
        (BranchKinds \cup {"ExceptHandler", "BoolOp"}) = {})
        => out.complexity = 1

C5_Witness ==
    /\ Measured
    /\ Len(unit.tree) >= 3
    /\ Kinds(unit.tree) = {"Module", "FunctionDef", "Other"}
    /\ out.complexity = 1

(* C6: a boolean combination of n >= 2 operands added to a tree raises the *)
(* complexity by exactly n - 1, also when it is an operand of another      *)
(* boolean combination.                                                    *)
C6_BoolOpAddsOperandsMinusOne ==
    Measured =>
        \A i \in 2..Len(unit.tree) :
            (unit.tree[i].kind = "BoolOp" /\ IsLeaf(unit.tree, i)) =>
                /\ unit.tree[i].nvals >= 2
                /\ out.complexity =
                       CalculateComplexity(RemoveLeaf(unit.tree, i))
                           + unit.tree[i].nvals - 1

C6_Witness ==
    /\ Measured
    /\ \E i \in 2..Len(unit.tree) :
          /\ unit.tree[i].kind = "BoolOp" /\ unit.tree[i].nvals = 3
          /\ IsLeaf(unit.tree, i)
          /\ unit.tree[unit.tree[i].parent].kind = "BoolOp"
    /\ out.complexity = 1 + 1 + 2

(* Every order in which the members of S can be visited once each *)
RECURSIVE Orders(_)
Orders(S) ==
    IF S = {} THEN {<<>>}
    ELSE UNION { { <<x>> \o q : q \in Orders(S \ {x}) } : x \in S }

RECURSIVE SumOperands(_, _)
SumOperands(tree, S) ==
    IF S = {} THEN 0
    ELSE LET i == CHOOSE x \in S : TRUE
         IN (tree[i].nvals - 1) + SumOperands(tree, S \ {i})

(* What the multiset of node kinds and operand counts gives *)
CountOfKinds(tree) ==
    Cardinality({ i \in 1..Len(tree) :
                    tree[i].kind \in {"If", "For", "While", "With", "ExceptHandler"} })
        + SumOperands(tree, { i \in 1..Len(tree) : tree[i].kind = "BoolOp" })

(* C15: for a fixed tree the complexity is the same for every order in     *)
(* which the nodes are visited once each: it is 1 plus what the multiset   *)
(* of node kinds and boolean-combination operand counts gives.             *)
C15_OrderOfVisitIsIrrelevant ==
    Measured =>
        /\ \A order \in Orders(1..Len(unit.tree)) :
             1 + SumComplexity(unit.tree, order) = out.complexity
        /\ out.complexity = 1 + CountOfKinds(unit.tree)

C15_Witness ==
    /\ Measured
    /\ Len(unit.tree) = 4
    /\ \E i \in 2..4 : unit.tree[i].kind = "BoolOp" /\ unit.tree[i].nvals = 3
    /\ \E i \in 2..4 : unit.tree[i].kind = "If"
    /\ \E i \in 2..4 : unit.tree[i].kind = "ExceptHandler"
    /\ unit.tree[4].kind # "BoolOp"
    /\ out.complexity = 5

----------------------------------------------------------------------------
(* Properties of the declaration extraction, under SpecDecl *)

Extracted == "declarations" \in out.ops /\ unit.parses

OfKind(tree, k) == { i \in 1..Len(tree) : tree[i].kind = k }

(* One type with two member functions and one free function, nothing else *)
OneTypeTwoMethodsOneFunction(tree) ==
    /\ Len(tree) = 5
    /\ \E c \in OfKind(tree, "ClassDef"), f \in OfKind(tree, "FunctionDef") :
         /\ OfKind(tree, "ClassDef") = {c}
         /\ tree[c].parent = 1
         /\ tree[f].parent = 1
         /\ Children(tree, c) = OfKind(tree, "FunctionDef") \ {f}
         /\ Cardinality(Children(tree, c)) = 2

(* C8: for one type with two member functions and one free function the    *)
(* extraction returns, without raising, one type with exactly its two      *)
(* methods in declaration order and a free-function list holding exactly   *)
(* the free function.                                                      *)
C8_OneTypeTwoMethodsOneFunction ==
    (Extracted /\ OneTypeTwoMethodsOneFunction(unit.tree)) =>
        LET c == CHOOSE c \in OfKind(unit.tree, "ClassDef") : TRUE
        IN /\ out.status = "ok"
           /\ out.classes =
                  <<[name |-> c, methods |-> SortedSeq(Children(unit.tree, c))]>>
           /\ out.functions =
                  SortedSeq(OfKind(unit.tree, "FunctionDef") \ Children(unit.tree, c))

(* C9: for every parsed unit the two lists cover every type definition and *)
(* every top-level function, hold nothing twice, and are in the order of   *)
(* first appearance in a depth-first traversal (source order).             *)
C9_ExhaustiveDepthFirstNoDuplicates ==
    Extracted =>
        /\ out.status = "ok"
        /\ [ k \in 1..Len(out.classes) |-> out.classes[k].name ] =
               SortedSeq(OfKind(unit.tree, "ClassDef"))
        /\ out.functions =
               SortedSeq({ i \in OfKind(unit.tree, "FunctionDef") :
                             unit.tree[i].parent = 1 })

Range(q) == { q[k] : k \in 1..Len(q) }

FunctionsIn(tree, k) ==
    { f \in OfKind(tree, "FunctionDef") : tree[tree[f].parent].kind = k }

(* The positions in out.classes at which f is listed as a method *)
ListedAsMethod(f) ==
    { k \in 1..Len(out.classes) : f \in Range(out.classes[k].methods) }

(* C16: the extraction reports a function as a free function only if it is *)
(* at the top level of the unit; a function whose nearest enclosing        *)
(* construct is a type is reported as that type's method and nowhere else; *)
(* a function nested in another function is in neither the free-function  *)
(* list nor any method list.                                               *)
C16_FreeFunctionsAreTopLevel ==
    Extracted =>
        /\ out.status = "ok"
        /\ Range(out.functions) \subseteq FunctionsIn(unit.tree, "Module")
        /\ \A f \in FunctionsIn(unit.tree, "ClassDef") :
             /\ f \notin Range(out.functions)
             /\ \A k \in ListedAsMethod(f) :
                  out.classes[k].name = unit.tree[f].parent
             /\ Cardinality(ListedAsMethod(f)) = 1
        /\ \A f \in FunctionsIn(unit.tree, "FunctionDef") :
             /\ f \notin Range(out.functions)
             /\ ListedAsMethod(f) = {}

----------------------------------------------------------------------------
(* Properties of the static analysis and of parse failure, under SpecStatic *)

Scanned == "static" \in out.ops /\ unit.parses

NestedFindings ==
    SelectSeq(out.findings, LAMBDA f : f.title = "Nested loop detected")

Contains(tree, i, j) == i # j /\ i \in AncestorsOrSelf(tree, j)

(* The For nodes that have another For node somewhere below them *)
ForsWithInnerFor(tree) ==
    { i \in OfKind(tree, "For") :
        \E j \in OfKind(tree, "For") : Contains(tree, i, j) }

(* Three loops in all, one of them containing the other two *)
OneLoopHoldingTwo(tree, loops) ==
    /\ Cardinality(loops) = 3
    /\ \E o \in loops : \A j \in loops \ {o} : Contains(tree, o, j)

Chained(tree, loops) ==
    \E i \in loops, j \in loops :
        \E o \in loops \ {i, j} : Contains(tree, o, i) /\ Contains(tree, i, j)

(* C7: a unit that fails to parse has complexity 0, no declarations, and   *)
(* an empty static finding list, also when its text holds more than 10     *)
(* "+=" and the marker "str".                                              *)
C7_ParseFailureYieldsNothing ==
    ~unit.parses =>
        /\ "complexity" \in out.ops => out.complexity = 0
        /\ "declarations" \in out.ops =>
               /\ out.status = "noparse"
               /\ out.classes = <<>> /\ out.functions = <<>>
        /\ "static" \in out.ops => out.findings = <<>>

C7_Witness ==
    /\ ~unit.parses
    /\ unit.plusEq > ConcatThreshold /\ unit.hasStr
    /\ out.ops = {"complexity", "declarations", "static"}
    /\ out.complexity = 0 /\ out.findings = <<>> /\ out.status = "noparse"

(* C10 as stated: a unit whose only loops are one loop containing two      *)
(* further loops gets exactly one nested-loop finding, the inner loops     *)
(* being siblings or nested in one another.                                *)
C10_ExactlyOneFinding_AsStated ==
    (Scanned /\ OneLoopHoldingTwo(unit.tree,
                    OfKind(unit.tree, "For") \cup OfKind(unit.tree, "While")))
        => Len(NestedFindings) = 1

(* C10 amended: there is one nested-loop finding for each For node that    *)
(* has another For node in its subtree, tagged with its line: with three   *)
(* for-loops, one containing the other two, exactly one finding when the   *)
(* inner loops are siblings and exactly two when they are chained.         *)
C10_OneFindingPerForWithInnerFor ==
    Scanned =>
        /\ Len(NestedFindings) = Cardinality(ForsWithInnerFor(unit.tree))
        /\ { NestedFindings[k].line : k \in 1..Len(NestedFindings) } =
               ForsWithInnerFor(unit.tree)
        /\ OneLoopHoldingTwo(unit.tree, OfKind(unit.tree, "For")) =>
               Len(NestedFindings) =
                   IF Chained(unit.tree, OfKind(unit.tree, "For")) THEN 2 ELSE 1

C10_Witness ==
    /\ Scanned
    /\ OneLoopHoldingTwo(unit.tree, OfKind(unit.tree, "For"))
    /\ Chained(unit.tree, OfKind(unit.tree, "For"))
    /\ OfKind(unit.tree, "While") = {}
    /\ Len(NestedFindings) = 2

Loops(tree) == OfKind(tree, "For") \cup OfKind(tree, "While")

FindingsAt(line) ==
    SelectSeq(out.findings,
              LAMBDA f : f.title = "Nested loop detected" /\ f.line = line)

(* C11: for every loop node L, counted (for) or condition (while), there   *)
(* is a medium-priority finding tagged with L's line if and only if        *)
(* another loop node of either kind lies somewhere in L's subtree, at most *)
(* one finding per L, and none for a loop holding no loop.                 *)
C11_FindingIffAnyLoopInside ==
    Scanned =>
        /\ \A L \in Loops(unit.tree) :
             Len(FindingsAt(L)) =
                 IF \E j \in Loops(unit.tree) : Contains(unit.tree, L, j)
                 THEN 1 ELSE 0
        /\ \A k \in 1..Len(NestedFindings) :
             /\ NestedFindings[k].priority = "medium"
             /\ NestedFindings[k].line \in Loops(unit.tree)

ConcatFindings ==
    SelectSeq(out.findings, LAMBDA f : f.title = "Repeated string concatenation")

(* C12: for a text that parses there is exactly one low-priority           *)
(* concatenation finding when the text holds more than 10 "+=" and the     *)
(* marker "str", and none otherwise: none for exactly 10 occurrences, none *)
(* for 11 occurrences without the marker.                                  *)
C12_ConcatOnlyAboveTenWithMarker ==
    Scanned =>
        /\ (unit.plusEq >= 11 /\ unit.hasStr) =>
               /\ Len(ConcatFindings) = 1
               /\ ConcatFindings[1].priority = "low"
               /\ out.findings[Len(out.findings)] = ConcatFindings[1]
        /\ unit.plusEq <= 10 => ConcatFindings = <<>>
        /\ ~unit.hasStr => ConcatFindings = <<>>

C12_Witness ==
    /\ Scanned
    /\ unit.plusEq = 11 /\ unit.hasStr
    /\ Len(ConcatFindings) = 1
    /\ Len(NestedFindings) = 1

----------------------------------------------------------------------------
(* Properties of the remote delegate call sites, under SpecRemote *)

Called == call.site \in Sites

ParsingSites == {"analyzer", "reviewer", "optimizer"}

TextNotJson(reply) == reply.net = "ok" /\ reply.form = "notjson"

(* C3 as stated: every call site returns its empty default when the call   *)
(* times out, gets a non-2xx response or the reply text is not valid JSON, *)
(* and never raises.                                                       *)
C3_DefaultOnFailure_AsStated ==
    Called =>
        /\ ~call.result.raised
        /\ (call.reply.net \in {"timeout", "non2xx"} \/ TextNotJson(call.reply))
               => call.result.value = SiteDefault(call.site)

(* C3 amended: no call site raises; each returns its default on a timeout, *)
(* a non-2xx response or a response without the text field; the analyzer,  *)
(* reviewer and optimizer sites also when the reply text is not valid      *)
(* JSON, while the two documentor sites do not parse the text and return   *)
(* it unchanged.                                                           *)
C3_DefaultOnFailure ==
    Called =>
        /\ ~call.result.raised
        /\ call.reply.net \in FailedNets
               => call.result.value = SiteDefault(call.site)
        /\ (call.site \in ParsingSites /\ TextNotJson(call.reply))
               => call.result.value = SiteDefault(call.site)
        /\ (call.site \notin ParsingSites /\ TextNotJson(call.reply))
               => /\ call.result.value = call.reply.value
                  /\ call.result.value # SiteDefault(call.site)

C3_Witness ==
    /\ Called
    /\ call.site = "optimizer"
    /\ TextNotJson(call.reply)
    /\ call.result = Return(OptimizerDefault)
    /\ ncalls = 2

----------------------------------------------------------------------------
(* Properties of the review score, under SpecReview *)

(* The remote delegate's review reached review_diff as sent *)
Scored ==
    /\ pc = "done" /\ verdict.status = "returned"
    /\ call.reply = JsonReply(review)

NumberOf(sev) ==
    Cardinality({ i \in 1..Len(review.issues) : review.issues[i] = sev })

(* Twice the raw value 10 - 2c - m - 0.5l, plus 1 with suggestions *)
RawHalves ==
    20 - 4 * NumberOf("critical") - 2 * NumberOf("medium") - NumberOf("low")
       + (IF review.others # <<>> THEN 2 ELSE 0)

(* t is h/2 truncated toward zero *)
IsTruncation(t, h) ==
    IF h >= 0 THEN 2 * t <= h /\ h < 2 * t + 2
    ELSE 2 * t - 2 < h /\ h <= 2 * t

(* C4: the score is the clamp to [1,10] of the truncation toward zero of   *)
(* 10 - 2c - m - 0.5l (+1 with suggestions): 10 for no issues, 4 for three *)
(* critical issues and no suggestions, 1 when the raw value is below 1,    *)
(* always an integer in 1..10.                                             *)
C4_ScoreIsClampedTruncation ==
    Scored =>
        /\ verdict.overall_score \in 1..10
        /\ \E t \in -30..30 :
             /\ IsTruncation(t, RawHalves)
             /\ verdict.overall_score =
                    (IF t < 1 THEN 1 ELSE IF t > 10 THEN 10 ELSE t)
        /\ review.issues = <<>> => verdict.overall_score = 10
        /\ (review.issues = <<"critical", "critical", "critical">>
              /\ review.others = <<>>) => verdict.overall_score = 4
        /\ RawHalves < 2 => verdict.overall_score = 1

C4_Witness ==
    /\ Scored
    /\ NumberOf("critical") = 4 /\ NumberOf("low") = 1
    /\ review.others # <<>>
    /\ RawHalves = 5
    /\ verdict.overall_score = 2

----------------------------------------------------------------------------
(* Properties of the batch commands, under SpecBatch *)

Visited(name) == { i \in 1..Len(log) : log[i].unit = name }

(* analyze_directory returned from a batch of readable files of which      *)
(* exactly one fails to parse                                              *)
AnalyzedOneBroken ==
    /\ cmd = "analyze" /\ pc = "returned"
    /\ Visited("unreadable") = {}
    /\ Cardinality(Visited("broken")) = 1

EntriesOf(i) == { k \in 1..Len(report.items) : report.items[k].file_path = i }

(* The remote reply for file i is JSON text of something else than a mapping *)
NonMappingJson(i) ==
    /\ log[i].reply.net = "ok" /\ log[i].reply.form = "json"
    /\ log[i].reply.value.t \notin {"map", "mapbad"}

(* The 'issues' the remote delegate sent for file i, none when the call failed *)
SentIssues(i) ==
    IF log[i].reply.net = "ok" /\ log[i].reply.form = "json"
    THEN log[i].reply.value.issues ELSE <<>>

SentOthers(i) ==
    IF log[i].reply.net = "ok" /\ log[i].reply.form = "json"
    THEN log[i].reply.value.others ELSE <<>>

C2_FailureNeverAbortsBatch ==
    /\ pc # "raised"
    /\ pc = "returned" => Len(log) = nfiles

(* analyze_directory or optimize_code has ended, by returning or by an     *)
(* exception, on a batch of readable files                                 *)
EndedOnReadableFiles ==
    /\ cmd \in {"analyze", "optimize"}
    /\ pc \in {"returned", "raised"}
    /\ Visited("unreadable") = {}

(* C17: in a run of analyze_directory or optimize_code over readable files *)
(* every file of the traversal is processed, in order, with exactly one    *)
(* remote delegate call each (also for a file that does not parse), never  *)
(* a second one whether the call succeeded or failed; after a failed call  *)
(* the run goes on with the next file, and the result entries are in       *)
(* traversal order.                                                        *)
C17_OneCallPerFileInOrder ==
    EndedOnReadableFiles =>
        /\ Len(log) = nfiles
        /\ \A i \in 1..nfiles : log[i].called
        /\ ncalls = nfiles
        /\ cmd = "analyze" =>
               \A k \in 1..(Len(report.items) - 1) :
                   report.items[k].file_path < report.items[k + 1].file_path
        /\ cmd = "optimize" =>
               \A k \in 1..(Len(report.items) - 1) :
                   report.items[k].file <= report.items[k + 1].file

(* What the remote delegate suggested for file i: the decoded list, or     *)
(* nothing when the call failed or the text was no JSON                    *)
SuggestedFor(i) ==
    IF /\ log[i].reply.net = "ok" /\ log[i].reply.form = "json"
       /\ log[i].reply.value.t = "list"
    THEN log[i].reply.value.others ELSE <<>>

(* The static findings of the catalogue's units, written out *)
FindingsFor(name, i) ==
    IF name = "plain"
    THEN << [title |-> "Nested loop detected", priority |-> "medium",
             file |-> i, line |-> 2],
            [title |-> "Repeated string concatenation", priority |-> "low",
             file |-> i, line |-> 0] >>
    ELSE <<>>

RECURSIVE AllSuggestions(_)
AllSuggestions(n) ==
    IF n = 0 THEN <<>>
    ELSE AllSuggestions(n - 1) \o SuggestedFor(n) \o FindingsFor(log[n].unit, n)

(* C18: for max_suggestions K >= 0 optimize_code returns exactly the first *)
(* K entries, or all if there are fewer, of the concatenation in traversal *)
(* order of each file's remote suggestions followed by its static          *)
(* findings; total_suggestions is the length of that list and at most K.   *)
C18_FirstKOfConcatenation ==
    (cmd = "optimize" /\ pc = "returned") =>
        LET all == AllSuggestions(nfiles)
            K == max_suggestions
        IN /\ Len(log) = nfiles
           /\ report.items = SubSeq(all, 1, IF Len(all) < K THEN Len(all) ELSE K)
           /\ report.count = Len(report.items)
           /\ report.count <= K

C18_Witness ==
    /\ cmd = "optimize" /\ pc = "returned"
    /\ nfiles = 2 /\ max_suggestions = 2
    /\ Len(AllSuggestions(nfiles)) = 6
    /\ report.count = 2
    /\ report.items[1].title = "Use a set"
    /\ report.items[2].title = "Nested loop detected"

----------------------------------------------------------------------------
(* Properties of main, under SpecMain *)

(* The command's branch of main ran to its end: the command returned and   *)
(* its result, where it has one, was written                               *)
CommandCompleted ==
    /\ cmd \in Commands /\ config.status = "ok"
    /\ main.command = "completed" /\ main.output # "failed"
    /\ cmd \in BatchCommands =>
           /\ report.status = "returned" /\ Len(log) = nfiles
           /\ \A i \in 1..Len(log) : log[i].fate # "raised"
    /\ cmd = "review" => verdict.status = "returned"
    /\ cmd = "readme" => call.result.value.t = "str"

(* An exception left the command's branch *)
ExceptionEscaped ==
    \/ main.command = "raised"
    \/ main.output = "failed"
    \/ report.status = "raised"
    \/ verdict.status = "raised"

(* C13: a run of main ends with exit code 0 exactly when the dispatched    *)
(* command completes without an exception escaping it, with exit code 1    *)
(* whenever an exception escapes the dispatch or no command is given, and  *)
(* with no other exit code.                                                *)
C13_ExitZeroIffCommandCompleted ==
    pc = "exited" =>
        /\ main.exit \in {<<0>>, <<1>>}
        /\ main.exit = <<0>> <=> CommandCompleted
        /\ ExceptionEscaped => main.exit = <<1>>
        /\ cmd = "none" => main.exit = <<1>>

C13_Witness ==
    /\ pc = "exited"
    /\ cmd = "optimize" /\ nfiles = 2
    /\ Len(log) = 1 /\ log[1].fate = "raised"
    /\ main.exit = <<1>>

----------------------------------------------------------------------------
(* Properties of Config, under SpecConfig *)

(* The three settings the environment overrides *)
Overrides ==
    { [var |-> "IFLOW_API_KEY", section |-> "ai", name |-> "api_key",
       key |-> <<"ai", ".", "api_key">>],
      [var |-> "GITHUB_TOKEN", section |-> "github", name |-> "token",
       key |-> <<"github", ".", "token">>],
      [var |-> "GITHUB_REPOSITORY", section |-> "github", name |-> "repository",
       key |-> <<"github", ".", "repository">>] }

(* What default.yaml holds at section.name: <<>> when the file, the        *)
(* section or the key is not there                                         *)
YamlAt(section, name) ==
    LET y == files.yaml
    IN IF /\ y.exists /\ y.wellformed /\ y.value.t = "dict"
          /\ section \in DOMAIN y.value.d
          /\ y.value.d[section].t = "dict"
          /\ name \in DOMAIN y.value.d[section].d
       THEN <<y.value.d[section].d[name]>>
       ELSE <<>>

Looked == config.status = "ok" /\ lookup.made

(* C14: after Config is constructed, get of 'ai.api_key', 'github.token'   *)
(* and 'github.repository' is the environment variable's value whenever    *)
(* the variable is set, whatever the YAML mapping holds, and the YAML      *)
(* value otherwise; get of a key with a missing path segment returns the   *)
(* supplied default.                                                       *)
C14_EnvironmentOverridesYaml ==
    Looked =>
        /\ \A o \in Overrides :
             lookup.key = o.key =>
                 lookup.value =
                     IF environ[o.var] # <<>> THEN CfgStr(environ[o.var][1])
                     ELSE IF YamlAt(o.section, o.name) # <<>>
                          THEN YamlAt(o.section, o.name)[1]
                          ELSE lookup.default
        /\ lookup.key \in { <<"nosuch", ".", "key">>,
                             <<"ai", ".", "api_key", ".", "more">>,
                             <<"ai", ".", ".", "api_key">> }
               => lookup.value = lookup.default
        /\ (lookup.key = <<"ai", ".", "model">> /\ YamlAt("ai", "model") = <<>>)
               => lookup.value = lookup.default

C14_Witness ==
    /\ Looked
    /\ environ["GITHUB_TOKEN"] = <<"from-env">>
    /\ YamlAt("github", "token") = <<FromYaml>>
    /\ lookup.key = <<"github", ".", "token">>
    /\ lookup.default = CfgStr("fallback")
    /\ lookup.value = CfgStr("from-env")

====
